---- MODULE Spec2Model ----
(***************************************************************************)
(* Pigeon Optics storage substrate: the dataset model (base-data-model,    *)
(* src/unnamed/part_003) and the attachment store (attachments,            *)
(* src/unnamed/part_004), as one state machine.                            *)
(*                                                                         *)
(* Node runs one task at a time and switches tasks only at I/O: one action *)
(* of this module is the code a call runs from the completion of one       *)
(* filesystem operation to the start of the next one.  process.nextTick    *)
(* callbacks run before any other I/O completes, so an event emission      *)
(* belongs to the action that schedules it.                                *)
(*                                                                         *)
(* One dataset (source/user/name) is modelled; a linker path               *)
(* <source>/<user>/<name>/<recordID> is identified with its recordID.      *)
(***************************************************************************)
EXTENDS Integers, Sequences, FiniteSets, TLC

\* ---------------------------------------------------------------- bounds
NumProcs == 2
MaxOps == 3
MaxHolds == 2
MaxEntries == 2
MaxKeys == 3

Procs == 1..NumProcs
Handles == 1..MaxHolds
\* no holder of a lock, no release closure
NoProc == 0
NoHandle == 0

Recs == {"a", "b"}
Atts == {"A"}

\* ------------------------------------------------------------ data model
\* A StructuredValue is identified by a tag; links are the hash URLs found in it.
\* NullData stands for null / undefined.
NullData == [tag |-> 0, links |-> <<>>]
Plain == [tag |-> 1, links |-> <<>>]
Linked == [tag |-> 2, links |-> <<"A">>]
Data == {Plain, Linked}
AllData == Data \cup {NullData}

IsNull(d) == d.tag = 0

\* recordStructure.listHashURLs(data)
ListHashURLs(d) == d.links

\* hash returned by objectStore.write(data): the content address of the value
ObjectHash(d) == 100 + d.tag

NoRec == [present |-> FALSE, hash |-> 0, links |-> <<>>, version |-> 0]
EmptyRecords == [r \in Recs |-> NoRec]
NoMeta == [exists |-> FALSE, version |-> 0, cfgOK |-> TRUE, records |-> EmptyRecords]
NoAttMeta == [exists |-> FALSE, created |-> 0, updated |-> 0, linkers |-> <<>>]

Entry == Recs \X AllData
PathLists == {<<>>, <<"a">>, <<"b">>, <<"a", "b">>}

VARIABLES
  meta,      \* the dataset's meta file (file store path [meta])
  prior,     \* hashes of the records of the version committed before the current one
  listing,   \* record ids as char codes: the keys a block returned, the key order of
             \* the records object updateMeta builds from them, and what iterate yields
  call,      \* a call of a function of the codec layer or a request to the server:
             \* its input and, once it is done, its result
  objects,   \* hashes present in the dataset's object store
  attBlob,   \* attachments/blobs: hash -> blob present
  attMeta,   \* attachments/meta: hash -> AttachmentMeta
  holding,   \* the hold table, 0 = no entry
  fileLock,  \* holder of the file store update lock on the dataset meta
  metaLock,  \* hash -> holder of the file store update lock on attachments/meta/<hash>
  attLock,   \* hash -> holder of the tq lock ["attachments", hash]
  hstate,    \* release closures: handle -> free | pending | held | heldRaw | released
  hhash,     \* handle -> the hash its closure captured
  pc,        \* task -> where its current call stands
  loc,       \* task -> the locals of its current call
  last,      \* outcome of the call that finished last
  events,    \* updateEvents.pathUpdated calls so far
  ops        \* calls started so far

vars == <<meta, prior, listing, call, objects, attBlob, attMeta, holding, fileLock, metaLock, attLock,
          hstate, hhash, pc, loc, last, events, ops>>

datasetVars == <<meta, prior, listing, call, objects, fileLock, events>>
attVars == <<attBlob, attMeta, holding, metaLock, attLock, hstate, hhash>>

Unlisted == [given |-> <<>>, keys |-> <<>>, sorted |-> FALSE, yielded |-> <<>>]

Loc0 ==
  [op |-> "", cur |-> <<"a", NullData>>, i |-> 0, overwrite |-> FALSE, rec |-> "a",
   draft |-> NoMeta, before |-> NoMeta, evBefore |-> 0,
   prevHashes |-> {}, prevKeys |-> {}, included |-> {}, nulled |-> {}, wrote |-> {},
   overlap |-> FALSE,
   err |-> "", missing |-> <<>>,
   att |-> "A", paths |-> <<>>, old |-> NoAttMeta, retain |-> FALSE,
   handle |-> NoHandle, viaRelease |-> FALSE, linkedSince |-> FALSE, updates |-> 0, pending |-> NoProc,
   same |-> TRUE]

Last0 == [op |-> "", ok |-> TRUE, err |-> "", value |-> "", overlap |-> FALSE]

NoCall == [fn |-> "", done |-> FALSE]

\* A created, empty dataset.  With uploaded, every attachment has been written by a
\* writeStream whose release closure is still held.  given is the key list of listing,
\* c the call of the codec layer.
InitState(uploaded, given, c) ==
  /\ meta = [NoMeta EXCEPT !.exists = TRUE]
  /\ prior = {}
  /\ listing = [Unlisted EXCEPT !.given = given]
  /\ call = c
  /\ objects = {}
  /\ attBlob = [h \in Atts |-> uploaded]
  /\ attMeta = [h \in Atts |-> [NoAttMeta EXCEPT !.exists = uploaded]]
  /\ holding = [h \in Atts |-> IF uploaded THEN 1 ELSE 0]
  /\ fileLock = NoProc
  /\ metaLock = [h \in Atts |-> NoProc]
  /\ attLock = [h \in Atts |-> NoProc]
  /\ hstate = [h \in Handles |-> IF uploaded /\ h = 1 THEN "held" ELSE "free"]
  /\ hhash = [h \in Handles |-> "A"]
  /\ pc = [p \in Procs |-> "idle"]
  /\ loc = [p \in Procs |-> Loc0]
  /\ last = Last0
  /\ events = <<>>
  /\ ops = 0

InitWith(uploaded) == InitState(uploaded, <<>>, NoCall)
Init == InitWith(FALSE)
InitData == \E uploaded \in BOOLEAN : InitWith(uploaded)

\* a call that returns before its first I/O
Immediate(p, op, ok, err, value) ==
  /\ last' = [Last0 EXCEPT !.op = op, !.ok = ok, !.err = err, !.value = value]
  /\ ops' = ops + 1
  /\ UNCHANGED <<pc, loc>>

\* ---------------------------------------------------------------- helpers
Idle(p) == pc[p] = "idle"
CanStart(p) == Idle(p) /\ ops < MaxOps

\* hold and release are bounded by the release closures, not by the budget of calls
Uncounted(p, op, value) ==
  /\ last' = [Last0 EXCEPT !.op = op, !.value = value]
  /\ UNCHANGED <<pc, loc, ops>>

Begin(p, label, locals) ==
  /\ pc' = [pc EXCEPT ![p] = label]
  /\ loc' = [loc EXCEPT ![p] = locals]
  /\ ops' = ops + 1
  /\ UNCHANGED last

Goto(p, label, locals) ==
  /\ pc' = [pc EXCEPT ![p] = label]
  /\ loc' = [loc EXCEPT ![p] = locals]
  /\ UNCHANGED <<last, ops>>

Return(p, ok, err, value) ==
  /\ pc' = [pc EXCEPT ![p] = "idle"]
  /\ loc' = [loc EXCEPT ![p] = Loc0]
  /\ last' = [op |-> loc[p].op, ok |-> ok, err |-> err, value |-> value,
              overlap |-> loc[p].overlap]
  /\ UNCHANGED ops

PresentIds(m) == {r \in Recs : m.records[r].present}
RecordHashes(m) == {m.records[r].hash : r \in PresentIds(m)}

\* ------------------------------------------------ base-data-model: updateMeta
DatasetWritePcs == {"u_read", "we_check", "we_write", "cb_write", "u_retain", "u_write"}
WriterBusy == \E q \in Procs : pc[q] \in DatasetWritePcs
EntriesOps == {"writeEntries", "write"}

\* an update that leaves the version as it read it
KeepVersion(v) == v

\* a version step of two, which leaves a gap
SkipVersion(v) == v + 2

\* config.version += 1
NextVersion(v) == v + 1

\* attachments.has(hash): blob and meta both exist
AttHas(h) == attBlob[h] /\ attMeta[h].exists

\* a links check that finds every attachment present
NothingMissing(links) == SelectSeq(links, LAMBDA l : FALSE)

\* linkChecks.filter(x => !x.present)
MissingLinks(links) == SelectSeq(links, LAMBDA l : ~AttHas(l))

\* objectStore.retain(list): every stored hash not in the list is deleted
Retain(store, keep) == store \cap keep

\* a validation loop that stamps every record with config.version
StampAll(m) ==
  [m EXCEPT !.records = [r \in Recs |->
      IF m.records[r].present
      THEN [m.records[r] EXCEPT !.version = m.version]
      ELSE m.records[r]]]

\* the validation loop of updateMeta: a record without a version gets config.version
DefaultVersions(m) ==
  [m EXCEPT !.records = [r \in Recs |->
      IF m.records[r].present /\ m.records[r].version = 0
      THEN [m.records[r] EXCEPT !.version = m.version]
      ELSE m.records[r]]]

\* the source specific validateConfig(user, name, result)
ConfigValid(m) == m.cfgOK

\* a validation loop that asserts nothing
AnyRecords(m) == TRUE

\* the assertions of the validation loop: a numeric version above 0 and a hash that is
\* a Buffer of 32 bytes, which the hashes of the object store are
RecordsValid(m) ==
  \A r \in PresentIds(m) :
    /\ m.records[r].version > 0
    /\ m.records[r].hash \in {ObjectHash(d) : d \in Data}

\* a retain list without the previous version's hashes
RetainResult(prev, failed, result) == IF failed THEN {} ELSE RecordHashes(result)

\* what updateMeta hands to retain: the previous version's hashes, and the hashes of
\* the result's records once the block has returned
RetainList(prev, failed, result) == prev \cup (IF failed THEN {} ELSE RecordHashes(result))

\* no overwrite pass at all
PruneNever(m, ow, prevKeys, included) == m

\* an overwrite pass that runs whether or not overwrite was asked for
PruneAlways(m, ow, prevKeys, included) ==
  [m EXCEPT !.records = [r \in Recs |->
      IF r \in prevKeys /\ r \notin included THEN NoRec ELSE m.records[r]]]

\* writeEntries, the overwrite pass after the entries loop
PruneUnwritten(m, ow, prevKeys, included) ==
  IF ow
  THEN [m EXCEPT !.records = [r \in Recs |->
          IF r \in prevKeys /\ r \notin included THEN NoRec ELSE m.records[r]]]
  ELSE m

\* an entry that leaves the records as they are
PutNothing(m, id, d) == m

\* the record's meta is replaced whether or not its hash changed
PutAlways(m, id, d) ==
  [m EXCEPT !.records[id] =
      [present |-> TRUE, hash |-> ObjectHash(d), links |-> ListHashURLs(d), version |-> 0]]

\* meta.records[id] = { hash, links } when the record is new or its hash changed
PutRecord(m, id, d) ==
  IF ~m.records[id].present \/ m.records[id].hash # ObjectHash(d)
  THEN [m EXCEPT !.records[id] =
          [present |-> TRUE, hash |-> ObjectHash(d), links |-> ListHashURLs(d), version |-> 0]]
  ELSE m

\* a null entry that leaves the record in place
KeepRecord(m, id) == m

\* delete meta.records[id]
DropRecord(m, id) == [m EXCEPT !.records[id] = NoRec]

\* writeEntries(user, name, entries, { overwrite }); entries is an (async) iterable,
\* each entry is drawn when the loop asks for it
StartWriteEntries(p, ow) ==
  /\ CanStart(p)
  /\ Begin(p, "u_read", [Loc0 EXCEPT !.op = "writeEntries", !.overwrite = ow,
                                     !.overlap = WriterBusy])
  /\ UNCHANGED <<meta, prior, listing, call, objects, fileLock, events>>
  /\ UNCHANGED attVars

\* write(user, name, recordID, data): asserts, then writeEntries of one entry
StartWrite(p, isNull) ==
  /\ CanStart(p)
  /\ IF isNull
     THEN Immediate(p, "write", FALSE, "AssertionError", "")
     ELSE Begin(p, "u_read", [Loc0 EXCEPT !.op = "write", !.overlap = WriterBusy])
  /\ UNCHANGED <<meta, prior, listing, call, objects, fileLock, events>>
  /\ UNCHANGED attVars

\* delete(user, name, recordID)
StartDelete(p, id) ==
  /\ CanStart(p)
  /\ Begin(p, "u_read", [Loc0 EXCEPT !.op = "delete", !.rec = id, !.overlap = WriterBusy])
  /\ UNCHANGED <<meta, prior, listing, call, objects, fileLock, events>>
  /\ UNCHANGED attVars

\* updateMeta(user, name, block) with the block of another caller
StartUpdate(p) ==
  /\ CanStart(p)
  /\ Begin(p, "u_read", [Loc0 EXCEPT !.op = "updateMeta", !.overlap = WriterBusy])
  /\ UNCHANGED <<meta, prior, listing, call, objects, fileLock, events>>
  /\ UNCHANGED attVars

\* whether the entries loop may take one more entry after i entries
MoreAllowed(l, more) ==
  IF l.op = "write" THEN more = (l.i = 0) ELSE more => l.i < MaxEntries

\* the entries loop asks for the next entry: there is one, or the loop is over
AfterEntry(p, l, more) ==
  IF more
  THEN Goto(p, "we_check", l)
  ELSE Goto(p, "u_retain",
            [l EXCEPT !.draft = PruneUnwritten(l.draft, l.overwrite, l.prevKeys, l.included)])

\* the holder of a lock after the block it guarded has thrown: update and lockWhile
\* release on every exit path
FreeOnError(holder) == NoProc

\* an update that takes whatever it reads for a config
NeverMissing(config) == FALSE

\* if (!config) throw new Error('Dataset doesn\'t exist')
ConfigMissing(config) == ~config.exists

\* fileStore.update(['meta'], ...): take the lock, read the meta, run the block up to
\* its first I/O
UpdateRead(p, more) ==
  /\ pc[p] = "u_read"
  /\ fileLock = NoProc
  /\ IF ConfigMissing(meta)
     THEN /\ more
          /\ Return(p, FALSE, "Dataset doesn't exist", "")
          /\ fileLock' = FreeOnError(p)
     ELSE LET config == [meta EXCEPT !.version = NextVersion(@)]
              base == [loc[p] EXCEPT !.draft = config, !.before = meta,
                                     !.evBefore = Len(events),
                                     !.prevHashes = RecordHashes(meta),
                                     !.prevKeys = PresentIds(meta)]
          IN  /\ fileLock' = p
              /\ CASE loc[p].op \in EntriesOps ->
                        MoreAllowed(base, more) /\ AfterEntry(p, base, more)
                   [] loc[p].op = "delete" ->
                        more /\ Goto(p, "u_retain",
                                     [base EXCEPT !.draft = DropRecord(config, loc[p].rec)])
                   [] OTHER -> more /\ Goto(p, "cb_write", base)
  /\ UNCHANGED <<meta, prior, listing, call, objects, events>>
  /\ UNCHANGED attVars

\* writeEntries, one entry: a null value deletes the record, any other value has its
\* links checked against the attachment store
EntryCheck(p, e, more) ==
  /\ pc[p] = "we_check"
  /\ loc[p].op = "write" => ~IsNull(e[2])
  /\ LET l == [loc[p] EXCEPT !.cur = e, !.i = @ + 1]
         missing == MissingLinks(ListHashURLs(e[2]))
     IN  IF IsNull(e[2])
         THEN /\ MoreAllowed(l, more)
              /\ AfterEntry(p, [l EXCEPT !.draft = DropRecord(@, e[1]),
                                         !.nulled = @ \cup {e[1]},
                                         !.same = FALSE], more)
         ELSE /\ more
              /\ IF Len(missing) > 0
                 THEN Goto(p, "u_retain", [l EXCEPT !.err = "MISSING_ATTACHMENTS",
                                                    !.missing = missing])
                 ELSE Goto(p, "we_write", l)
  /\ UNCHANGED <<meta, prior, listing, call, objects, fileLock, events>>
  /\ UNCHANGED attVars

\* the entry carries the value the meta has stored for its id
Stored(m, e) == m.records[e[1]].present /\ m.records[e[1]].hash = ObjectHash(e[2])

\* writeEntries, one entry: objectStore.write(data) and the record's new meta; same
\* notes whether every entry so far carried the value that was stored for its id
EntryWrite(p, more) ==
  /\ pc[p] = "we_write"
  /\ MoreAllowed(loc[p], more)
  /\ LET e == loc[p].cur
     IN  /\ objects' = objects \cup {ObjectHash(e[2])}
         /\ AfterEntry(p, [loc[p] EXCEPT !.included = @ \cup {e[1]},
                                         !.nulled = @ \ {e[1]},
                                         !.wrote = @ \cup {ObjectHash(e[2])},
                                         !.same = @ /\ Stored(loc[p].before, e),
                                         !.draft = PutRecord(@, e[1], e[2])], more)
  /\ UNCHANGED <<meta, prior, listing, call, fileLock, events>>
  /\ UNCHANGED attVars

\* the block of another caller of updateMeta: it stores one value, sets one record to
\* it and, with flaw, leaves a config that validateConfig rejects
BlockWrite(p, id, d, flaw) ==
  /\ pc[p] = "cb_write"
  /\ objects' = objects \cup {ObjectHash(d)}
  /\ Goto(p, "u_retain",
          [loc[p] EXCEPT !.wrote = @ \cup {ObjectHash(d)},
                         !.draft = [PutRecord(@, id, d) EXCEPT !.cfgOK = ~flaw]])
  /\ UNCHANGED <<meta, prior, listing, call, fileLock, events>>
  /\ UNCHANGED attVars

\* the block of another caller of updateMeta that builds the record's meta itself: v
\* is the version it sets (0: it sets none), and without hashOK the hash is not a
\* Buffer of 32 bytes
BlockRecord(p, id, d, v, hashOK) ==
  /\ pc[p] = "cb_write"
  /\ objects' = objects \cup {ObjectHash(d)}
  /\ Goto(p, "u_retain",
          [loc[p] EXCEPT !.wrote = @ \cup {ObjectHash(d)},
                         !.draft.records[id] =
                            [present |-> TRUE,
                             hash |-> IF hashOK THEN ObjectHash(d) ELSE NoRec.hash,
                             links |-> ListHashURLs(d), version |-> v]])
  /\ UNCHANGED <<meta, prior, listing, call, fileLock, events>>
  /\ UNCHANGED attVars

\* the locals of the tasks after the retain of an update: a read between its meta read
\* and its object read has seen one more updateMeta at work; by is the update when it
\* goes on to its write
Retained(l, by) ==
  [q \in Procs |-> IF pc[q] = "r_obj"
                   THEN [l[q] EXCEPT !.updates = @ + 1, !.pending = by]
                   ELSE l[q]]

\* the locals of the tasks after the write of update p: a read that has not seen the
\* retain of p has seen one more updateMeta at work
Written(l, p) ==
  [q \in Procs |-> IF pc[q] = "r_obj"
                   THEN IF l[q].pending = p THEN [l[q] EXCEPT !.pending = NoProc]
                        ELSE [l[q] EXCEPT !.updates = @ + 1]
                   ELSE l[q]]

\* updateMeta after the block: the assertions, validateConfig, and retain in the
\* finally; a failure leaves the update without writing
UpdateRetain(p) ==
  /\ pc[p] = "u_retain"
  /\ LET failed == loc[p].err # ""
         result == DefaultVersions(loc[p].draft)
         keep == RetainList(loc[p].prevHashes, failed \/ ~RecordsValid(result), result)
         err == IF failed THEN loc[p].err
                ELSE IF ~RecordsValid(result) THEN "AssertionError"
                ELSE IF ~ConfigValid(result) THEN "VALIDATION_FAILED" ELSE ""
     IN  /\ objects' = Retain(objects, keep)
         /\ IF err # ""
            THEN /\ pc' = [pc EXCEPT ![p] = "idle"]
                 /\ loc' = Retained([loc EXCEPT ![p] = Loc0], NoProc)
                 /\ last' = [op |-> loc[p].op, ok |-> FALSE, err |-> err, value |-> "",
                             overlap |-> loc[p].overlap]
                 /\ fileLock' = FreeOnError(fileLock)
            ELSE /\ pc' = [pc EXCEPT ![p] = "u_write"]
                 /\ loc' = Retained([loc EXCEPT ![p] = [loc[p] EXCEPT !.draft = result]], p)
                 /\ UNCHANGED <<last, fileLock>>
         /\ UNCHANGED ops
  /\ UNCHANGED <<meta, prior, listing, call, events>>
  /\ UNCHANGED attVars

\* an event that carries the initial notifyVersion
PathUpdatedZero(evs, v) == Append(evs, [path |-> "dataset", version |-> 0])

\* updateEvents.pathUpdated(<source>/user/name, notifyVersion)
PathUpdated(evs, v) == Append(evs, [path |-> "dataset", version |-> v])

\* the file store writes the result, the lock is released, and the next tick
\* emits pathUpdated(<source>/user/name, notifyVersion)
UpdateWrite(p) ==
  /\ pc[p] = "u_write"
  /\ meta' = [loc[p].draft EXCEPT !.exists = TRUE]
  /\ prior' = RecordHashes(meta)
  /\ UNCHANGED <<listing, call>>
  /\ fileLock' = NoProc
  /\ events' = PathUpdated(events, loc[p].draft.version)
  /\ pc' = [pc EXCEPT ![p] = "idle"]
  /\ loc' = Written([loc EXCEPT ![p] = Loc0], p)
  /\ last' = [op |-> loc[p].op, ok |-> TRUE, err |-> "", value |-> "",
              overlap |-> loc[p].overlap]
  /\ UNCHANGED <<objects, ops>>
  /\ UNCHANGED attVars

\* delete(user, name): the file store subtree (meta and objects) is removed
DeleteDataset(p) ==
  /\ CanStart(p)
  /\ meta' = NoMeta
  /\ prior' = {}
  /\ UNCHANGED <<listing, call>>
  /\ objects' = {}
  /\ events' = Append(events, [path |-> "system", version |-> -1])
  /\ Immediate(p, "deleteDataset", TRUE, "", "")
  /\ UNCHANGED fileLock
  /\ UNCHANGED attVars

\* a create without the exists check
StartCreateBlind(p, cfgOK) ==
  /\ CanStart(p)
  /\ IF ~cfgOK
     THEN Immediate(p, "create", FALSE, "VALIDATION_FAILED", "")
     ELSE Begin(p, "c_write", [Loc0 EXCEPT !.op = "create"])
  /\ UNCHANGED datasetVars
  /\ UNCHANGED attVars

\* create(user, name, config): the exists check and validateConfig
StartCreate(p, cfgOK) ==
  /\ CanStart(p)
  /\ IF meta.exists \/ ~cfgOK
     THEN Immediate(p, "create", FALSE,
                    IF meta.exists THEN "ALREADY_EXISTS" ELSE "VALIDATION_FAILED", "")
     ELSE Begin(p, "c_write", [Loc0 EXCEPT !.op = "create"])
  /\ UNCHANGED datasetVars
  /\ UNCHANGED attVars

\* create: file.write(['meta'], config) and the two events of the next tick
CreateWrite(p) ==
  /\ pc[p] = "c_write"
  /\ meta' = [NoMeta EXCEPT !.exists = TRUE]
  /\ prior' = {}
  /\ UNCHANGED <<listing, call>>
  /\ events' = events \o <<[path |-> "system", version |-> -1],
                           [path |-> "dataset", version |-> 0]>>
  /\ Return(p, TRUE, "", "")
  /\ UNCHANGED <<objects, fileLock>>
  /\ UNCHANGED attVars

\* --------------------------------------------- base-data-model: record order
\* Record ids as sequences of char codes: "1", "10", "9a", "a", "a10", "-a"
RecordIds == {<<49>>, <<49, 48>>, <<57, 97>>, <<97>>, <<97, 49, 48>>, <<45, 97>>}

RECURSIVE ListsOf(_, _)
\* the lists of at most n distinct ids of a set
ListsOf(ids, n) ==
  IF n = 0 THEN {<<>>}
  ELSE {<<>>} \cup {<<x>> \o l : x \in ids, l \in ListsOf(ids, n - 1)}

\* the keys of the records object a block returns, in the order they were inserted
KeyLists == {l \in ListsOf(RecordIds, MaxKeys) : \A i, j \in 1..Len(l) : i # j => l[i] # l[j]}

IsNumberCode(c) == c \in 48..57

RECURSIVE SkipZeros(_, _)
\* stringNaturalCompare: leading zeros of a number are passed over
SkipZeros(a, i) ==
  IF a[i] = 48 THEN (IF i + 1 <= Len(a) THEN SkipZeros(a, i + 1) ELSE i + 1) ELSE i

RECURSIVE DigitsEnd(_, _)
\* stringNaturalCompare: the index after the digits that start at i
DigitsEnd(a, i) == IF i <= Len(a) /\ IsNumberCode(a[i]) THEN DigitsEnd(a, i + 1) ELSE i

RECURSIVE FirstDifference(_, _, _, _, _)
\* stringNaturalCompare: two numbers of the same length, digit by digit
FirstDifference(a, b, i, j, end) ==
  IF i >= end THEN 0
  ELSE IF a[i] # b[j] THEN a[i] - b[j] ELSE FirstDifference(a, b, i + 1, j + 1, end)

RECURSIVE CompareFrom(_, _, _, _)
\* stringNaturalCompare(a, b) from positions i and j: numbers by value, other
\* characters by char code
CompareFrom(a, b, i, j) ==
  IF i > Len(a) \/ j > Len(b)
  THEN (IF i <= Len(a) THEN 1 ELSE IF j <= Len(b) THEN -1 ELSE Len(a) - Len(b))
  ELSE IF IsNumberCode(a[i])
       THEN IF ~IsNumberCode(b[j]) THEN a[i] - b[j]
            ELSE LET sa == SkipZeros(a, i)
                     sb == SkipZeros(b, j)
                     ea == DigitsEnd(a, sa)
                     eb == DigitsEnd(b, sb)
                     longer == (ea - sa) - (eb - sb)
                     digit == FirstDifference(a, b, sa, sb, ea)
                 IN  IF longer # 0 THEN longer
                     ELSE IF digit # 0 THEN digit ELSE CompareFrom(a, b, ea, eb)
       ELSE IF a[i] # b[j] THEN a[i] - b[j] ELSE CompareFrom(a, b, i + 1, j + 1)

NaturalCompare(a, b) == CompareFrom(a, b, 1, 1)

\* the keys the comparator puts at or before x form the start of a sorted list
InsertKey(sorted, x) ==
  LET n == Cardinality({k \in 1..Len(sorted) : NaturalCompare(sorted[k], x) <= 0})
  IN  SubSeq(sorted, 1, n) \o <<x>> \o SubSeq(sorted, n + 1, Len(sorted))

RECURSIVE SortNatural(_)
\* Object.entries(result.records).sort((a, b) => stringNaturalCompare(a[0], b[0]))
SortNatural(l) ==
  IF l = <<>> THEN <<>> ELSE InsertKey(SortNatural(SubSeq(l, 1, Len(l) - 1)), l[Len(l)])

\* a property key that is an array index: a canonical decimal number
IsArrayIndex(id) ==
  /\ Len(id) > 0
  /\ \A k \in 1..Len(id) : IsNumberCode(id[k])
  /\ Len(id) = 1 \/ id[1] # 48

RECURSIVE IndexValue(_)
IndexValue(id) ==
  IF id = <<>> THEN 0 ELSE 10 * IndexValue(SubSeq(id, 1, Len(id) - 1)) + (id[Len(id)] - 48)

RECURSIVE Ascending(_)
Ascending(ids) ==
  IF ids = {} THEN <<>>
  ELSE LET m == CHOOSE x \in ids : \A y \in ids : IndexValue(x) <= IndexValue(y)
       IN  <<m>> \o Ascending(ids \ {m})

\* the key order of an object whose properties were created in the order of l
\* (Object.fromEntries, Object.entries, for-in): array indexes in ascending
\* order, then the other keys in creation order
OwnKeys(l) ==
  Ascending({l[k] : k \in {k \in 1..Len(l) : IsArrayIndex(l[k])}})
    \o SelectSeq(l, LAMBDA id : ~IsArrayIndex(id))

\* updateMeta: result.records = Object.fromEntries(Object.entries(...).sort(...))
SortRecords ==
  /\ ~listing.sorted
  /\ listing' = [listing EXCEPT !.keys = OwnKeys(SortNatural(OwnKeys(listing.given))),
                                !.sorted = TRUE]
  /\ UNCHANGED <<meta, prior, call, objects, fileLock, events>>
  /\ UNCHANGED attVars
  /\ UNCHANGED <<pc, loc, last, ops>>

\* iterate(user, name): for (const id in meta.records) yield { id, ... }
IterateRecords ==
  /\ listing.sorted
  /\ listing.yielded # listing.keys
  /\ listing' = [listing EXCEPT !.yielded = listing.keys]
  /\ UNCHANGED <<meta, prior, call, objects, fileLock, events>>
  /\ UNCHANGED attVars
  /\ UNCHANGED <<pc, loc, last, ops>>

\* the name under which a value is reported in last.value
ValueName(d) == IF d.tag = 1 THEN "Plain" ELSE IF d.tag = 2 THEN "Linked" ELSE "null"

\* objectStore.read(hash): the value stored under the hash
ObjectRead(h) == CHOOSE d \in Data : ObjectHash(d) = h

\* read(user, name, recordID): readMeta, then meta.records[recordID]; a missing
\* record gives undefined without an object read
StartRead(p, id) ==
  /\ CanStart(p)
  /\ meta.exists
  /\ IF meta.records[id].present
     THEN Begin(p, "r_obj", [Loc0 EXCEPT !.op = "read", !.rec = id, !.before = meta])
     ELSE Immediate(p, "read", TRUE, "", "undefined")
  /\ UNCHANGED datasetVars
  /\ UNCHANGED attVars

\* read: objectStore.read(recordMeta.hash)
ReadObject(p) ==
  /\ pc[p] = "r_obj"
  /\ LET h == loc[p].before.records[loc[p].rec].hash
     IN  IF h \in objects
         THEN Return(p, TRUE, "", ValueName(ObjectRead(h)))
         ELSE Return(p, FALSE, "ENOENT", "")
  /\ UNCHANGED datasetVars
  /\ UNCHANGED attVars

\* ------------------------------------------------------------- attachments
RECURSIVE Dedup(_)
\* [...new Set(list)]: the first occurrence of each element, in order
Dedup(list) ==
  IF list = <<>> THEN <<>>
  ELSE LET init == Dedup(SubSeq(list, 1, Len(list) - 1))
           x == list[Len(list)]
       IN  IF \E k \in 1..Len(init) : init[k] = x THEN init ELSE Append(init, x)

Includes(list, x) == \E k \in 1..Len(list) : list[k] = x

\* writeStream: linkers: [...new Set([...oldValue.linkers, ...meta.linkers])]
MergeLinkers(old, new) == Dedup(old \o new)

\* a filter that lets every path through
EveryPath(linkers, paths) == paths

\* link: dataPaths.filter(x => !meta.linkers.includes(x))
MissingPaths(linkers, paths) == SelectSeq(paths, LAMBDA x : ~Includes(linkers, x))

\* readPath.meta(path): the links of the record the path names, none when the
\* dataset or the record is missing
ReadPathLinks(path) ==
  IF meta.exists /\ meta.records[path].present THEN meta.records[path].links ELSE <<>>

\* link.toLowerCase().startsWith(hashURL), for every link of one record
Matches(links, h) == SelectSeq(links, LAMBDA l : l = h)

RECURSIVE NewLinkers(_, _)
\* validate: newLinkers.push(path) once per matching link of each linker's record
NewLinkers(linkers, h) ==
  IF linkers = <<>> THEN <<>>
  ELSE LET path == Head(linkers)
       IN  [k \in 1..Len(Matches(ReadPathLinks(path), h)) |-> path]
             \o NewLinkers(Tail(linkers), h)

\* a delete decision that ignores the holding table
DeleteUnlinked(retain, h) == ~retain

\* validate: if (!retain && !(hexHash in holding))
ShouldDelete(retain, h) == ~retain /\ holding[h] = 0

FreeHandles == {h \in Handles : hstate[h] = "free"}
FirstFree == CHOOSE h \in FreeHandles : \A g \in FreeHandles : h <= g

\* a hold that sets the entry to 1 whether or not it exists
TakeFirstHold(h, a, state) ==
  /\ holding' = [holding EXCEPT ![a] = 1]
  /\ hstate' = [hstate EXCEPT ![h] = state]
  /\ hhash' = [hhash EXCEPT ![h] = a]

\* hold(hash): the table entry is created or incremented, a release closure returned
TakeHold(h, a, state) ==
  /\ holding' = [holding EXCEPT ![a] = @ + 1]
  /\ hstate' = [hstate EXCEPT ![h] = state]
  /\ hhash' = [hhash EXCEPT ![h] = a]

\* writeStream(stream, meta): the stream is in the temp file, the hash is known and
\* held; the call waits for the attachment lock
StartWriteStream(p, a, paths) ==
  /\ CanStart(p)
  /\ FreeHandles # {}
  /\ TakeHold(FirstFree, a, "pending")
  /\ Begin(p, "ws_acq", [Loc0 EXCEPT !.op = "writeStream", !.att = a, !.paths = paths,
                                     !.handle = FirstFree])
  /\ UNCHANGED <<attBlob, attMeta, metaLock, attLock>>
  /\ UNCHANGED datasetVars

\* tq.lockWhile(['attachments', hexHash], ...)
WSAcquire(p) ==
  /\ pc[p] = "ws_acq"
  /\ attLock[loc[p].att] = NoProc
  /\ attLock' = [attLock EXCEPT ![loc[p].att] = p]
  /\ Goto(p, "ws_read", loc[p])
  /\ UNCHANGED <<attBlob, attMeta, holding, metaLock, hstate, hhash>>
  /\ UNCHANGED datasetVars

\* metaStore.update([hexHash], ...): the update lock and the read of the old value
WSRead(p) ==
  /\ pc[p] = "ws_read"
  /\ metaLock[loc[p].att] = NoProc
  /\ metaLock' = [metaLock EXCEPT ![loc[p].att] = p]
  /\ Goto(p, "ws_rename", [loc[p] EXCEPT !.old = attMeta[loc[p].att]])
  /\ UNCHANGED <<attBlob, attMeta, holding, attLock, hstate, hhash>>
  /\ UNCHANGED datasetVars

\* blobStore.raw.rename(tempPath, dataPath), or the temp file is dropped
WSRename(p) ==
  /\ pc[p] = "ws_rename"
  /\ attBlob' = [attBlob EXCEPT ![loc[p].att] = TRUE]
  /\ Goto(p, "ws_write", loc[p])
  /\ UNCHANGED <<attMeta, holding, metaLock, attLock, hstate, hhash>>
  /\ UNCHANGED datasetVars

\* Date.now(), as the number of calls started so far
Now == ops

\* a merged meta whose created is the time of this write
MergedFresh(old, paths) ==
  [exists |-> TRUE, created |-> Now, updated |-> Now,
   linkers |-> MergeLinkers(old.linkers, paths)]

\* writeStream: { created: now, ...oldValue, updated: now, ...meta, linkers: union }
Merged(old, paths) ==
  [exists |-> TRUE,
   created |-> IF old.exists THEN old.created ELSE Now,
   updated |-> Now,
   linkers |-> MergeLinkers(old.linkers, paths)]

\* the merged meta is written, both locks are released, { hash, release } returned
WSWrite(p) ==
  /\ pc[p] = "ws_write"
  /\ attMeta' = [attMeta EXCEPT ![loc[p].att] = Merged(loc[p].old, loc[p].paths)]
  /\ metaLock' = [metaLock EXCEPT ![loc[p].att] = NoProc]
  /\ attLock' = [attLock EXCEPT ![loc[p].att] = NoProc]
  /\ hstate' = [hstate EXCEPT ![loc[p].handle] = "held"]
  /\ Return(p, TRUE, "", "")
  /\ UNCHANGED <<attBlob, holding, hhash>>
  /\ UNCHANGED datasetVars

\* link(hash, ...dataPaths)
StartLink(p, a, paths) ==
  /\ CanStart(p)
  /\ Begin(p, "l_acq", [Loc0 EXCEPT !.op = "link", !.att = a, !.paths = paths])
  /\ UNCHANGED attVars
  /\ UNCHANGED datasetVars

LinkAcquire(p) ==
  /\ pc[p] = "l_acq"
  /\ attLock[loc[p].att] = NoProc
  /\ attLock' = [attLock EXCEPT ![loc[p].att] = p]
  /\ Goto(p, "l_read", loc[p])
  /\ UNCHANGED <<attBlob, attMeta, holding, metaLock, hstate, hhash>>
  /\ UNCHANGED datasetVars

\* a link whose throw on a missing meta leaves the attachment lock with the call
LinkReadHolding(p) ==
  /\ pc[p] = "l_read"
  /\ metaLock[loc[p].att] = NoProc
  /\ LET a == loc[p].att
         m == attMeta[a]
         missing == MissingPaths(m.linkers, loc[p].paths)
     IN  IF ~m.exists
         THEN /\ Return(p, FALSE, "Cannot link non-existant attachment", "")
              /\ UNCHANGED <<attLock, metaLock>>
         ELSE IF missing = <<>>
              THEN /\ Return(p, TRUE, "", "")
                   /\ attLock' = [attLock EXCEPT ![a] = NoProc]
                   /\ UNCHANGED metaLock
              ELSE /\ Goto(p, "l_write", [loc[p] EXCEPT !.old = [m EXCEPT !.linkers = @ \o missing,
                                                                          !.updated = Now]])
                   /\ metaLock' = [metaLock EXCEPT ![a] = p]
                   /\ UNCHANGED attLock
  /\ UNCHANGED <<attBlob, attMeta, holding, hstate, hhash>>
  /\ UNCHANGED datasetVars

\* link: the update reads the meta; a missing meta throws, no missing path writes nothing
LinkRead(p) ==
  /\ pc[p] = "l_read"
  /\ metaLock[loc[p].att] = NoProc
  /\ LET a == loc[p].att
         m == attMeta[a]
         missing == MissingPaths(m.linkers, loc[p].paths)
     IN  IF ~m.exists
         THEN /\ Return(p, FALSE, "Cannot link non-existant attachment", "")
              /\ attLock' = [attLock EXCEPT ![a] = FreeOnError(@)]
              /\ metaLock' = [metaLock EXCEPT ![a] = FreeOnError(p)]
         ELSE IF missing = <<>>
              THEN /\ Return(p, TRUE, "", "")
                   /\ attLock' = [attLock EXCEPT ![a] = NoProc]
                   /\ UNCHANGED metaLock
              ELSE /\ Goto(p, "l_write", [loc[p] EXCEPT !.old = [m EXCEPT !.linkers = @ \o missing,
                                                                          !.updated = Now]])
                   /\ metaLock' = [metaLock EXCEPT ![a] = p]
                   /\ UNCHANGED attLock
  /\ UNCHANGED <<attBlob, attMeta, holding, hstate, hhash>>
  /\ UNCHANGED datasetVars

\* link: the meta with the added linkers is written, both locks are released
LinkWrite(p) ==
  /\ pc[p] = "l_write"
  /\ attMeta' = [attMeta EXCEPT ![loc[p].att] = loc[p].old]
  /\ metaLock' = [metaLock EXCEPT ![loc[p].att] = NoProc]
  /\ attLock' = [attLock EXCEPT ![loc[p].att] = NoProc]
  /\ pc' = [pc EXCEPT ![p] = "idle"]
  /\ loc' = [q \in Procs |->
               IF q = p THEN Loc0
               ELSE IF pc[q] = "v_decide" /\ loc[q].att = loc[p].att
                    THEN [loc[q] EXCEPT !.linkedSince = TRUE]
                    ELSE loc[q]]
  /\ last' = [Last0 EXCEPT !.op = "link"]
  /\ UNCHANGED <<ops, attBlob, holding, hstate, hhash>>
  /\ UNCHANGED datasetVars

\* hold(hash), called directly
Hold(p, a) ==
  /\ Idle(p)
  /\ FreeHandles # {}
  /\ TakeHold(FirstFree, a, "heldRaw")
  /\ Uncounted(p, "hold", "")
  /\ UNCHANGED <<attBlob, attMeta, metaLock, attLock>>
  /\ UNCHANGED datasetVars

\* release(): the count goes down; at zero the entry is deleted and validate runs
Release(p, h) ==
  /\ Idle(p)
  /\ hstate[h] \in {"held", "heldRaw"}
  /\ hstate' = [hstate EXCEPT ![h] = "released"]
  /\ holding' = [holding EXCEPT ![hhash[h]] = @ - 1]
  /\ IF holding[hhash[h]] - 1 = 0
     THEN Goto(p, "v_read", [Loc0 EXCEPT !.op = "release", !.att = hhash[h], !.viaRelease = TRUE])
     ELSE Uncounted(p, "release", "false")
  /\ UNCHANGED <<attBlob, attMeta, metaLock, attLock, hhash>>
  /\ UNCHANGED datasetVars

\* release() called again: a warning, nothing else
ReleaseAgain(p, h) ==
  /\ Idle(p)
  /\ hstate[h] = "released"
  /\ Uncounted(p, "release", "undefined")
  /\ UNCHANGED attVars
  /\ UNCHANGED datasetVars

\* validate(hash), called directly
StartValidate(p, a) ==
  /\ CanStart(p)
  /\ Begin(p, "v_read", [Loc0 EXCEPT !.op = "validate", !.att = a])
  /\ UNCHANGED attVars
  /\ UNCHANGED datasetVars

\* validate: metaStore.update reads the meta and resolves every linker
ValidateRead(p) ==
  /\ pc[p] = "v_read"
  /\ metaLock[loc[p].att] = NoProc
  /\ LET a == loc[p].att
         m == attMeta[a]
         new == NewLinkers(m.linkers, a)
     IN  IF ~m.exists
         THEN /\ Goto(p, "v_decide", [loc[p] EXCEPT !.retain = FALSE])
              /\ UNCHANGED metaLock
         ELSE /\ Goto(p, "v_write", [loc[p] EXCEPT !.retain = Len(new) > 0,
                                                   !.old = [m EXCEPT !.linkers = new]])
              /\ metaLock' = [metaLock EXCEPT ![a] = p]
  /\ UNCHANGED <<attBlob, attMeta, holding, attLock, hstate, hhash>>
  /\ UNCHANGED datasetVars

\* a validate that keeps the update lock of the meta while it goes on to take the
\* attachment lock
ValidateWriteLocked(p) ==
  /\ pc[p] = "v_write"
  /\ attMeta' = [attMeta EXCEPT ![loc[p].att] = loc[p].old]
  /\ Goto(p, "v_decide", loc[p])
  /\ UNCHANGED <<attBlob, holding, metaLock, attLock, hstate, hhash>>
  /\ UNCHANGED datasetVars

\* validate: the pruned meta is written and the update lock released
ValidateWrite(p) ==
  /\ pc[p] = "v_write"
  /\ attMeta' = [attMeta EXCEPT ![loc[p].att] = loc[p].old]
  /\ metaLock' = [metaLock EXCEPT ![loc[p].att] = NoProc]
  /\ Goto(p, "v_decide", loc[p])
  /\ UNCHANGED <<attBlob, holding, attLock, hstate, hhash>>
  /\ UNCHANGED datasetVars

ValidateValue(l) ==
  IF l.viaRelease THEN (IF l.retain THEN "false" ELSE "true")
  ELSE (IF l.retain THEN "true" ELSE "false")

\* validate: under the attachment lock, the decision to delete
ValidateDecide(p) ==
  /\ pc[p] = "v_decide"
  /\ attLock[loc[p].att] = NoProc
  /\ IF ShouldDelete(loc[p].retain, loc[p].att)
     THEN /\ attLock' = [attLock EXCEPT ![loc[p].att] = p]
          /\ Goto(p, "v_del", loc[p])
     ELSE /\ Return(p, TRUE, "", ValidateValue(loc[p]))
          /\ UNCHANGED attLock
  /\ UNCHANGED <<attBlob, attMeta, holding, metaLock, hstate, hhash>>
  /\ UNCHANGED datasetVars

\* validate: blobStore.delete and metaStore.delete are done, the lock is released
ValidateDelete(p) ==
  /\ pc[p] = "v_del"
  /\ attBlob' = [attBlob EXCEPT ![loc[p].att] = FALSE]
  /\ attMeta' = [attMeta EXCEPT ![loc[p].att] = NoAttMeta]
  /\ attLock' = [attLock EXCEPT ![loc[p].att] = NoProc]
  /\ Return(p, TRUE, "", ValidateValue(loc[p]))
  /\ UNCHANGED <<holding, metaLock, hstate, hhash>>
  /\ UNCHANGED datasetVars

DatasetNext ==
  \/ \E p \in Procs, ow \in BOOLEAN : StartWriteEntries(p, ow)
  \/ \E p \in Procs, n \in BOOLEAN : StartWrite(p, n)
  \/ \E p \in Procs, id \in Recs : StartDelete(p, id)
  \/ \E p \in Procs : StartUpdate(p)
  \/ \E p \in Procs, more \in BOOLEAN : UpdateRead(p, more)
  \/ \E p \in Procs, e \in Entry, more \in BOOLEAN : EntryCheck(p, e, more)
  \/ \E p \in Procs, more \in BOOLEAN : EntryWrite(p, more)
  \/ \E p \in Procs, id \in Recs, d \in Data, flaw \in BOOLEAN : BlockWrite(p, id, d, flaw)
  \/ \E p \in Procs : UpdateRetain(p)
  \/ \E p \in Procs : UpdateWrite(p)

DropNext ==
  \/ \E p \in Procs : DeleteDataset(p)
  \/ \E p \in Procs, c \in BOOLEAN : StartCreate(p, c)
  \/ \E p \in Procs : CreateWrite(p)

WriteNext ==
  \/ \E p \in Procs : StartWrite(p, FALSE)
  \/ \E p \in Procs, id \in Recs : StartDelete(p, id)
  \/ \E p \in Procs, more \in BOOLEAN : UpdateRead(p, more)
  \/ \E p \in Procs, e \in Entry, more \in BOOLEAN : EntryCheck(p, e, more)
  \/ \E p \in Procs, more \in BOOLEAN : EntryWrite(p, more)
  \/ \E p \in Procs : UpdateRetain(p)
  \/ \E p \in Procs : UpdateWrite(p)

AttNext ==
  \/ \E p \in Procs, a \in Atts, paths \in PathLists : StartWriteStream(p, a, paths)
  \/ \E p \in Procs : WSAcquire(p)
  \/ \E p \in Procs : WSRead(p)
  \/ \E p \in Procs : WSRename(p)
  \/ \E p \in Procs : WSWrite(p)
  \/ \E p \in Procs, a \in Atts, paths \in PathLists : StartLink(p, a, paths)
  \/ \E p \in Procs : LinkAcquire(p)
  \/ \E p \in Procs : LinkRead(p)
  \/ \E p \in Procs : LinkWrite(p)
  \/ \E p \in Procs, a \in Atts : Hold(p, a)
  \/ \E p \in Procs, h \in Handles : Release(p, h)
  \/ \E p \in Procs, h \in Handles : ReleaseAgain(p, h)
  \/ \E p \in Procs, a \in Atts : StartValidate(p, a)
  \/ \E p \in Procs : ValidateRead(p)
  \/ \E p \in Procs : ValidateWrite(p)
  \/ \E p \in Procs : ValidateDecide(p)
  \/ \E p \in Procs : ValidateDelete(p)

ReadNext ==
  \/ \E p \in Procs, id \in Recs : StartRead(p, id)
  \/ \E p \in Procs : ReadObject(p)

\* the order of the records of a committed meta, for every key list
InitOrder == \E given \in KeyLists : InitState(FALSE, given, NoCall)
NextOrder == SortRecords \/ IterateRecords
SpecOrder == InitOrder /\ [][NextOrder]_vars

\* the dataset writers alone
NextData == DatasetNext
SpecData == InitData /\ [][NextData]_vars

\* write and delete of single records with create and delete of the dataset
NextDrop == WriteNext \/ DropNext
SpecDrop == Init /\ [][NextDrop]_vars

\* write and delete of single records with reads, the attachment uploaded or not
NextRead == WriteNext \/ ReadNext
SpecRead == InitData /\ [][NextRead]_vars

\* the attachment store with write and delete of single records
Next == AttNext \/ WriteNext
Spec == Init /\ [][Next]_vars

\* the calls that take locks: writeStream, link and validate with write and delete of
\* single records
CallsNext ==
  \/ \E p \in Procs, a \in Atts, paths \in PathLists : StartWriteStream(p, a, paths)
  \/ \E p \in Procs : WSAcquire(p)
  \/ \E p \in Procs : WSRead(p)
  \/ \E p \in Procs : WSRename(p)
  \/ \E p \in Procs : WSWrite(p)
  \/ \E p \in Procs, a \in Atts, paths \in PathLists : StartLink(p, a, paths)
  \/ \E p \in Procs : LinkAcquire(p)
  \/ \E p \in Procs : LinkRead(p)
  \/ \E p \in Procs : LinkWrite(p)
  \/ \E p \in Procs, a \in Atts : StartValidate(p, a)
  \/ \E p \in Procs : ValidateRead(p)
  \/ \E p \in Procs : ValidateWrite(p)
  \/ \E p \in Procs : ValidateDecide(p)
  \/ \E p \in Procs : ValidateDelete(p)

\* the event loop runs every continuation that is ready: a step of a call that is
\* under way and can go on is eventually taken
NextLive == CallsNext \/ WriteNext
Continue(p) == NextLive /\ ~Idle(p) /\ <<pc[p], loc[p]>>' # <<pc[p], loc[p]>>
SpecLive == Init /\ [][NextLive]_vars /\ \A p \in Procs : WF_vars(Continue(p))

\* ------------------------------------------------------------------ claims
Quiescent == \A p \in Procs : Idle(p)
Returns(p) == pc[p] # "idle" /\ pc'[p] = "idle"
Commits(p) == pc[p] = "u_write" /\ pc'[p] = "idle"
WriteSucceeds == \E p \in Procs : pc[p] \in DatasetWritePcs /\ Returns(p) /\ last'.ok
Present(h) == attBlob[h] /\ attMeta[h].exists
LinksTo(r, h) == meta.exists /\ meta.records[r].present /\ Includes(meta.records[r].links, h)

\* C1: on an existing dataset every step of write, writeEntries and delete(record)
\* that is the successful return of a call raises the version readMeta reports by
\* exactly 1, and every other step, a failing return included, leaves it unchanged.
C1_VersionSteps ==
  [][ /\ meta'.exists
      /\ WriteSucceeds => meta'.version = meta.version + 1
      /\ ~WriteSucceeds => meta'.version = meta.version ]_vars

\* two calls have committed and a third has failed
C1_Witness == meta.version = 2 /\ ~last.ok /\ last.err = "MISSING_ATTACHMENTS"

\* C2: the commit of a merge (writeEntries without overwrite) is one version above the
\* meta committed last, by whichever call, and keeps every record of that meta and
\* every record the call wrote, except the ids the call set to null: concurrent
\* calls are totally ordered and none loses the update of another.
C2_NoLostUpdate ==
  [][ \A p \in Procs :
        (Commits(p) /\ loc[p].op \in EntriesOps /\ ~loc[p].overwrite) =>
          /\ meta'.version = meta.version + 1
          /\ \A id \in (PresentIds(meta) \cup loc[p].included) \ loc[p].nulled :
               id \in PresentIds(meta') ]_vars

\* two merges that overlapped in time wrote a and b, one each, and both committed
C2_Witness ==
  /\ last.op = "writeEntries" /\ last.ok /\ last.overlap
  /\ meta.version = 2
  /\ PresentIds(meta) = {"a", "b"}
  /\ meta.records["a"].version # meta.records["b"].version

\* C3: every record of the committed meta has its object in the object store.
C3_GCSafety == meta.exists => RecordHashes(meta) \subseteq objects

\* C4: every hash URL in the links of a committed record names an attachment that
\* attachments.has reports present.
C4_Retention ==
  meta.exists =>
    \A r \in PresentIds(meta) : \A k \in 1..Len(meta.records[r].links) :
      Present(meta.records[r].links[k])

\* C5: when the links check of an entry finds a link whose attachment is missing, the
\* call takes the MISSING_ATTACHMENTS exit with the missing links listed; the next
\* step of that call is its failing return, where the meta is the one the call read
\* and no event has been emitted since.
C5_MissingRejected ==
  [][ \A p \in Procs :
        /\ (pc[p] = "we_check" /\ loc'[p].i = loc[p].i + 1
              /\ \E k \in 1..Len(loc'[p].cur[2].links) : ~Present(loc'[p].cur[2].links[k]))
           => /\ pc'[p] = "u_retain"
              /\ loc'[p].err = "MISSING_ATTACHMENTS"
              /\ loc'[p].missing = SelectSeq(loc'[p].cur[2].links, LAMBDA l : ~Present(l))
        /\ (loc[p].err = "MISSING_ATTACHMENTS" /\ pc'[p] # pc[p])
           => /\ pc'[p] = "idle"
              /\ ~last'.ok /\ last'.err = "MISSING_ATTACHMENTS"
              /\ meta' = loc[p].before
              /\ events' = events /\ Len(events) = loc[p].evBefore ]_vars

\* a call is at its MISSING_ATTACHMENTS exit after an earlier entry of the same call
\* was stored and changed the draft
C5_Witness ==
  \E p \in Procs :
    /\ pc[p] = "u_retain" /\ loc[p].err = "MISSING_ATTACHMENTS"
    /\ loc[p].included # {}
    /\ loc[p].wrote \subseteq objects
    /\ loc[p].draft.records # loc[p].before.records

\* C6: when updateMeta returns with a failure the meta is unchanged and no object the
\* block wrote is left in the object store unless a record of the meta has its hash.
C6_FailureCompensated ==
  [][ \A p \in Procs :
        (pc[p] = "u_retain" /\ Returns(p) /\ ~last'.ok) =>
          /\ meta' = loc[p].before
          /\ \A h \in loc[p].wrote : h \in objects' => h \in RecordHashes(meta') ]_vars

\* C7: validate decides to delete only when the hash is not held and no linker of the
\* attachment's meta names a record that links to the hash.
C7_DeleteOnlyUnreferenced ==
  [][ \A p \in Procs :
        (pc[p] = "v_decide" /\ pc'[p] = "v_del") =>
          /\ holding[loc[p].att] = 0
          /\ ~\E k \in 1..Len(attMeta[loc[p].att].linkers) :
                LinksTo(attMeta[loc[p].att].linkers[k], loc[p].att) ]_vars

\* C8: while a release closure returned by writeStream has not been called, the
\* attachment it holds is present (blob and meta).
C8_HeldIsPresent == \A h \in Handles : hstate[h] = "held" => Present(hhash[h])

\* a writeStream closure is held, another closure has been released, and a validate
\* that found no linker has returned
C8_Witness ==
  /\ \E h, g \in Handles : hstate[h] = "held" /\ hstate[g] = "released" /\ hhash[g] = hhash[h]
  /\ last.op = "validate" /\ last.value = "false"

\* C9: when no call is in flight, no record links to the attachment and no hold is
\* left, the attachment is gone.
C9_Collected ==
  \A a \in Atts :
    (Quiescent /\ holding[a] = 0 /\ ~\E r \in Recs : LinksTo(r, a)) => ~Present(a)

\* C10: a validate does not delete after a link on the same hash added a linker
\* between its read of the linkers and its decision.
C10_ValidateAtomic ==
  [][ \A p \in Procs :
        (pc[p] = "v_decide" /\ pc'[p] = "v_del") => ~loc[p].linkedSince ]_vars

\* hold(hash) calls on a whose release closure has not been called
Unreleased(a) == {h \in Handles : hhash[h] = a /\ hstate[h] \in {"pending", "held", "heldRaw"}}

\* C11: holding[hash] is the number of hold(hash) calls whose release closure has not
\* been called (never negative, 0 standing for no table entry); the first call of a
\* closure lowers the count by one and starts validate exactly when the count reaches
\* 0; a further call of the same closure changes nothing.
C11_HoldCount ==
  /\ [](\A a \in Atts : holding[a] = Cardinality(Unreleased(a)) /\ holding[a] >= 0)
  /\ [][ \A h \in Handles :
          /\ (hstate[h] \in {"held", "heldRaw"} /\ hstate'[h] = "released") =>
                /\ holding'[hhash[h]] = holding[hhash[h]] - 1
                /\ (holding'[hhash[h]] = 0) <=>
                     \E p \in Procs : /\ Idle(p) /\ pc'[p] = "v_read"
                                      /\ loc'[p].viaRelease /\ loc'[p].att = hhash[h]
          /\ (hstate[h] = "released" /\ last' # last
                /\ last'.op = "release" /\ last'.value = "undefined") =>
                /\ holding' = holding /\ hstate' = hstate /\ pc' = pc ]_vars

\* a closure has been called twice while another hold on the same hash is left
C11_Witness ==
  /\ last.op = "release" /\ last.value = "undefined"
  /\ \E h, g \in Handles : /\ hstate[h] = "released" /\ hstate[g] = "heldRaw"
                            /\ hhash[h] = hhash[g] /\ holding[hhash[g]] = 1

\* C12: validate returns true exactly when the attachment (blob and meta) is on disk
\* as the call completes, and a release closure that ran validate returns true exactly
\* when the attachment is not on disk as it completes.
C12_ReturnTellsDisk ==
  [][ \A p \in Procs :
        (pc[p] \in {"v_decide", "v_del"} /\ Returns(p)) =>
          LET a == loc[p].att
              onDisk == attBlob'[a] /\ attMeta'[a].exists
          IN  IF loc[p].viaRelease
              THEN (last'.value = "true") <=> ~onDisk
              ELSE (last'.value = "true") <=> onDisk ]_vars

\* ids that appeared in the entries of the call of p so far
Mentioned(p) == loc[p].included \cup loc[p].nulled

\* C13: the commit of a merge (writeEntries without overwrite) leaves every record
\* whose id was not in its entries as it was in the meta committed last: same hash,
\* links and record version, or absent as before.
C13_MergeFrame ==
  [][ \A p \in Procs :
        (Commits(p) /\ loc[p].op \in EntriesOps /\ ~loc[p].overwrite) =>
          \A id \in Recs \ Mentioned(p) : meta'.records[id] = meta.records[id] ]_vars

\* a merge that wrote only b has committed over a dataset that already had a
C13_Witness ==
  /\ last.op = "writeEntries" /\ last.ok
  /\ meta.version = 2
  /\ meta.records["a"].present /\ meta.records["a"].version = 1
  /\ meta.records["b"].present /\ meta.records["b"].version = 2
  /\ ~last.overlap

\* C14: the commit of an overwrite (writeEntries with overwrite) leaves exactly the
\* ids whose entry in the call had a value (for an id given twice, the later entry
\* counts): every earlier id the call did not write is gone, and so is every id it
\* set to null.
C14_OverwriteExact ==
  [][ \A p \in Procs :
        (Commits(p) /\ loc[p].op = "writeEntries" /\ loc[p].overwrite) =>
          PresentIds(meta') = loc[p].included \ loc[p].nulled ]_vars

\* an overwrite that wrote only b is about to commit over a dataset that has a
C14_Witness ==
  \E p \in Procs :
    /\ pc[p] = "u_write" /\ loc[p].op = "writeEntries" /\ loc[p].overwrite
    /\ "a" \in PresentIds(meta) /\ "a" \notin Mentioned(p)
    /\ loc[p].included = {"b"}
    /\ PresentIds(loc[p].draft) = {"b"}

\* the entries of the call of p so far named no id twice
DistinctIds(p) == loc[p].i = Cardinality(Mentioned(p))

\* C15 as stated: after a writeEntries call commits version V, every record whose id
\* had a value in the entries has record version V.
C15_WrittenAtVersion ==
  [][ \A p \in Procs :
        (Commits(p) /\ loc[p].op \in EntriesOps) =>
          \A id \in loc[p].included \ loc[p].nulled :
            meta'.records[id].version = meta'.version ]_vars

\* C15 amended: after a writeEntries call commits version V, a record whose id had a
\* value in the entries has record version V when it is new or its hash changed, and
\* keeps the record version it had when the call stored the hash it already had.
C15_ChangedAtVersion ==
  [][ \A p \in Procs :
        (Commits(p) /\ loc[p].op \in EntriesOps) =>
          \A id \in loc[p].included \ loc[p].nulled :
            LET old == meta.records[id]
                new == meta'.records[id]
                same == old.present /\ old.hash = new.hash
            IN  /\ new.present
                /\ new.version = meta'.version \/ (same /\ new.version = old.version)
                /\ DistinctIds(p) => (new.version = meta'.version <=> ~same) ]_vars

\* a call is about to commit a record it stored unchanged, which keeps its version,
\* next to a record it changed
C15_Witness ==
  \E p \in Procs :
    /\ pc[p] = "u_write" /\ loc[p].op = "writeEntries" /\ DistinctIds(p)
    /\ loc[p].included = {"a", "b"}
    /\ loc[p].draft.records["a"].version < loc[p].draft.version
    /\ loc[p].draft.records["b"].version = loc[p].draft.version

\* C16: while version V is committed, the objects of the records of V and of the
\* version committed before V are in the object store.
C16_KeptOneVersion == meta.exists => (RecordHashes(meta) \cup prior) \subseteq objects

\* C17: the step in which an updateMeta returns successfully has written the new meta
\* and emits exactly one event pathUpdated(<source>/user/name, V), V being the version
\* just written; no other step, a failing return included, emits an event.
C17_OneEventPerCommit ==
  [][ IF WriteSucceeds
      THEN /\ meta' # meta
           /\ events' = Append(events, [path |-> "dataset", version |-> meta'.version])
      ELSE events' = events ]_vars

\* two commits have emitted their events and a later call has failed without one
C17_Witness ==
  /\ events = <<[path |-> "dataset", version |-> 1], [path |-> "dataset", version |-> 2]>>
  /\ ~last.ok /\ last.err = "VALIDATION_FAILED"

\* task p starts a create in this step
CreateStarts(p) ==
  /\ Idle(p) /\ ops' # ops
  /\ pc'[p] = "c_write" \/ (pc' = pc /\ last'.op = "create")

C19_ReadAfterWrite ==
  [][ \A p \in Procs :
        /\ (Commits(p) /\ loc[p].op = "write") =>
              /\ meta'.version = meta.version + 1
              /\ meta'.records[loc[p].cur[1]].present
              /\ meta'.records[loc[p].cur[1]].hash = ObjectHash(loc[p].cur[2])
        /\ (pc[p] = "r_obj" /\ Returns(p)
              /\ meta.records[loc[p].rec] = loc[p].before.records[loc[p].rec]) =>
              /\ last'.ok
              /\ \E d \in Data : /\ ObjectHash(d) = meta.records[loc[p].rec].hash
                                 /\ last'.value = ValueName(d)
        /\ (Idle(p) /\ pc'[p] = "r_obj") => meta.records[loc'[p].rec].present
        /\ (ops' # ops /\ pc' = pc /\ last'.op = "read") =>
              /\ last'.ok /\ last'.value = "undefined"
              /\ \E id \in Recs : ~meta.records[id].present ]_vars

\* a was written twice with different values and a read has returned the later one
C19_Witness ==
  /\ last.op = "read" /\ last.ok /\ last.value = "Linked"
  /\ meta.version = 2
  /\ meta.records["a"].present /\ meta.records["a"].version = 2
  /\ ~meta.records["b"].present

Ordered(keys) == \A i, j \in 1..Len(keys) : i < j => NaturalCompare(keys[i], keys[j]) < 0

\* C20: the keys of the records object that updateMeta commits are in natural string
\* order, whatever order they were given in, and iterate yields them in that order.
C20_NaturalOrder ==
  /\ listing.sorted => Ordered(listing.keys)
  /\ Ordered(listing.yielded)

SeqSet(l) == {l[k] : k \in 1..Len(l)}
NoDuplicates(l) == \A i, j \in 1..Len(l) : i # j => l[i] # l[j]

C22_LinkUnion ==
  [][ \A p \in Procs :
        LET a == loc[p].att
        IN  /\ (pc[p] = "l_read" /\ pc'[p] # "l_read" /\ ~attMeta[a].exists) =>
                  /\ Idle(p)' /\ ~last'.ok /\ last'.op = "link"
                  /\ attMeta' = attMeta /\ attBlob' = attBlob
            /\ (pc[p] = "l_read" /\ pc'[p] # "l_read" /\ attMeta[a].exists
                  /\ SeqSet(loc[p].paths) \subseteq SeqSet(attMeta[a].linkers)) =>
                  /\ Idle(p)' /\ last'.ok /\ last'.op = "link"
                  /\ attMeta' = attMeta
            /\ (pc[p] = "l_write" /\ pc'[p] # "l_write") =>
                  /\ Idle(p)' /\ last'.ok /\ last'.op = "link"
                  /\ attMeta'[a].exists
                  /\ SeqSet(attMeta'[a].linkers)
                       = SeqSet(attMeta[a].linkers) \cup SeqSet(loc[p].paths)
                  /\ attMeta'[a].created = attMeta[a].created ]_vars

\* a link has added linker b to an attachment that had linker a
C22_Witness ==
  /\ last.op = "link" /\ last.ok
  /\ attMeta["A"].exists
  /\ attMeta["A"].linkers = <<"a", "b">>
  /\ attMeta["A"].created < attMeta["A"].updated
  /\ holding["A"] = 1

HoldsLock(p) ==
  \/ fileLock = p
  \/ \E a \in Atts : metaLock[a] = p \/ attLock[a] = p

Advance(p) == Next /\ ~Idle(p) /\ <<pc[p], loc[p]>>' # <<pc[p], loc[p]>>

\* C24: whenever calls are under way, one of them can take its next step: no set of
\* calls waits for locks that only calls of the set could release.
C24_NoDeadlock ==
  (\E p \in Procs : ~Idle(p)) => \E q \in Procs : ~Idle(q) /\ ENABLED Advance(q)

\* a validate waits for the attachment lock that a writeStream holds, and the
\* writeStream is about to take the update lock of the meta that the validate had
C24_Witness ==
  \E p, q \in Procs :
    /\ pc[p] = "v_decide" /\ loc[p].att = "A"
    /\ pc[q] = "ws_read" /\ attLock["A"] = q
    /\ ~ENABLED Advance(p)
    /\ ENABLED Advance(q)

\* C25: the step in which updateMeta reads a meta that does not exist is the failing
\* return of the call: the block is not entered, no meta is created and no event is
\* emitted.
C25_MissingDatasetFails ==
  [][ \A p \in Procs :
        (pc[p] = "u_read" /\ ~meta.exists /\ pc'[p] # "u_read") =>
          /\ Idle(p)' /\ ~last'.ok /\ last'.err = "Dataset doesn't exist"
          /\ last'.op = loc[p].op
          /\ meta' = meta /\ ~meta'.exists
          /\ objects' = objects
          /\ events' = events
          /\ fileLock' = NoProc ]_vars

\* a write to the dataset after its deletion has failed, and the deletion's event is
\* the only one
C25_Witness ==
  /\ last.op = "write" /\ ~last.ok /\ last.err = "Dataset doesn't exist"
  /\ ~meta.exists
  /\ Len(events) = 1 /\ events[1].path = "system"
  /\ Quiescent

\* ------------------------------------------------------------ codec: for(query)
\* A string is a sequence of pieces; no piece is made of other pieces, so two
\* sequences are the same string only when they are equal.
MaxQuery == 3
Pieces == {"application/xml", "application/json", "APPLICATION/XML", "text/plain",
           ";", " charset=utf-8", ".", "xml", "XML", "rss", "file"}
Queries == UNION {[1..n -> Pieces] : n \in 1..MaxQuery}

\* String.prototype.toLowerCase
LowerPiece(c) ==
  CASE c = "APPLICATION/XML" -> "application/xml"
    [] c = "XML" -> "xml"
    [] OTHER -> c
ToLowerCase(q) == [i \in 1..Len(q) |-> LowerPiece(q[i])]

\* query.split(';')[0]
SplitFirst(q) ==
  LET semis == {i \in 1..Len(q) : q[i] = ";"}
  IN  IF semis = {} THEN q
      ELSE SubSeq(q, 1, (CHOOSE i \in semis : \A j \in semis : i <= j) - 1)

\* the xml codec: handles and extensions
XmlHandles == {"application/xml", "text/xml", "application/rdf+xml", "application/rss+xml",
               "application/atom+xml", "application/xhtml+xml"}
XmlExtensions == <<"xml", "rss", "atom", "xhtml">>

\* the json codec: handles and extensions
JsonHandles == {"application/json"}
JsonExtensions == <<"json">>

\* exports.mediaTypeHandlers[key]
MediaTypeHandlers(key) ==
  IF Len(key) = 1 /\ key[1] \in JsonHandles THEN "json"
  ELSE IF Len(key) = 1 /\ key[1] \in XmlHandles THEN "xml"
  ELSE "undefined"

\* query === ext || query.endsWith(`.${ext}`)
ExtensionMatches(q, ext) ==
  \/ q = <<ext>>
  \/ Len(q) >= 2 /\ q[Len(q) - 1] = "." /\ q[Len(q)] = ext

\* for (const ext in exports.extensionHandlers) ...
ExtensionHandlers(q) ==
  IF \E i \in 1..Len(JsonExtensions) : ExtensionMatches(q, JsonExtensions[i]) THEN "json"
  ELSE IF \E i \in 1..Len(XmlExtensions) : ExtensionMatches(q, XmlExtensions[i]) THEN "xml"
  ELSE "undefined"

\* exports.for
For(query) ==
  LET q == ToLowerCase(query)
  IN  IF MediaTypeHandlers(SplitFirst(q)) # "undefined"
      THEN MediaTypeHandlers(q)
      ELSE ExtensionHandlers(q)

InitFor ==
  \E q \in Queries :
    InitState(FALSE, <<>>, [fn |-> "for", done |-> FALSE, query |-> q, codec |-> "undefined"])

CodecFor ==
  /\ call.fn = "for" /\ ~call.done
  /\ call' = [call EXCEPT !.done = TRUE, !.codec = For(call.query)]
  /\ UNCHANGED <<meta, prior, listing, objects, fileLock, events>>
  /\ UNCHANGED attVars
  /\ UNCHANGED <<pc, loc, last, ops>>

NextFor == CodecFor
SpecFor == InitFor /\ [][NextFor]_vars

\* the query is a registered media type followed by parameters
HasParameters(q) ==
  /\ Len(q) >= 2 /\ q[2] = ";"
  /\ MediaTypeHandlers(<<LowerPiece(q[1])>>) # "undefined"

\* C26: for(query) gives, for a registered media type followed by parameters, the codec
\* it gives for the media type alone, and it gives undefined only when neither the
\* media type nor an extension or file name matches.
C26_ParametersIgnored ==
  (call.fn = "for" /\ call.done) =>
    /\ HasParameters(call.query) => call.codec = For(<<call.query[1]>>)
    /\ call.codec = "undefined" =>
         /\ MediaTypeHandlers(SplitFirst(ToLowerCase(call.query))) = "undefined"
         /\ ExtensionHandlers(ToLowerCase(call.query)) = "undefined"

\* ------------------------------------------------------------------ codec: xml
\* A value: type is null, true, false, undefined, string, number, date, buffer, array or
\* object; text holds a string's characters, a buffer's bytes or a date's instant, num
\* a number, items an array's elements or an object's values, keys an object's keys.
MaxDepth == 2
MaxWidth == 2

Value(type, text, num, items, keys) ==
  [type |-> type, text |-> text, num |-> num, items |-> items, keys |-> keys]
Atom(type) == Value(type, "", 0, <<>>, <<>>)
Undefined == Atom("undefined")
StringV(s) == Value("string", s, 0, <<>>, <<>>)
NumberV(n) == Value("number", "", n, <<>>, <<>>)
BufferV(b) == Value("buffer", b, 0, <<>>, <<>>)
DateV(d) == Value("date", d, 0, <<>>, <<>>)
ArrayV(items) == Value("array", "", 0, items, <<>>)
ObjectV(keys, items) == Value("object", "", 0, items, keys)
\* the outcome of a call that throws a TypeError
Thrown == Atom("TypeError")

Scalars == {Atom("null"), Atom("true"), StringV("x"), StringV(""), StringV("<"),
            NumberV(1), BufferV("hi"), DateV("2021-01-01")}
KeyRows == {<<>>, <<"k">>, <<"k", "j">>}
Rows(S) == UNION {[1..n -> S] : n \in 0..MaxWidth}

RECURSIVE Values(_)
Values(depth) ==
  IF depth = 0 THEN Scalars
  ELSE LET inner == Values(depth - 1)
       IN  inner \cup {ArrayV(r) : r \in Rows(inner)}
                 \cup UNION {{ObjectV(k, r) : r \in {x \in Rows(inner) : Len(x) = Len(k)}} : k \in KeyRows}

\* A JsonML element is an array: the tag, then an attributes object or not, then the
\* children.  An item of it is a string, an object (attributes) or an array (an element).
NoAttrs == [name |-> "", encoding |-> "", xmlns |-> ""]
Str(s) == [kind |-> "string", text |-> s, attrs |-> NoAttrs, kids |-> <<>>]
Obj(a) == [kind |-> "object", text |-> "", attrs |-> a, kids |-> <<>>]
Arr(el) == [kind |-> "array", text |-> "", attrs |-> NoAttrs, kids |-> el]
ArbitraryNS == "pigeon-optics:arbitrary"

\* Number.prototype.toString and parseFloat
NumberToString(n) == CASE n = 0 -> "0" [] n = 1 -> "1" [] OTHER -> "NaN"
ParseFloat(s) == CASE s = "0" -> 0 [] s = "1" -> 1 [] OTHER -> -1
\* Date.prototype.toISOString and new Date(string)
ToISOString(d) == IF d = "2021-01-01" THEN "2021-01-01T00:00:00.000Z" ELSE "Invalid Date"
NewDate(s) == IF s = "2021-01-01T00:00:00.000Z" THEN "2021-01-01" ELSE "Invalid Date"
\* buffer.toString('base64') and Buffer.from(string, encoding)
ToBase64(b) == CASE b = "hi" -> "aGk=" [] b = "" -> "" [] OTHER -> "?"
BufferFrom(s, encoding) ==
  IF encoding = "base64"
  THEN (CASE s = "aGk=" -> "hi" [] s = "" -> "" [] OTHER -> "?")
  ELSE s

\* expandElement: [tag-name, { attributes-list }, ...children]
ExpandElement(el) ==
  IF Len(el) = 1 THEN <<el[1], Obj(NoAttrs)>>
  ELSE IF el[2].kind \in {"string", "array"} THEN <<el[1], Obj(NoAttrs)>> \o Tail(el)
  ELSE el

RECURSIVE ArbitraryObjectToJsonML(_)
ArbitraryObjectToJsonML(obj) ==
  CASE obj.type \in {"null", "undefined", "true", "false"} -> <<Str(obj.type)>>
    [] obj.type = "string" -> <<Str("string"), Str(obj.text)>>
    [] obj.type = "number" -> <<Str("number"), Str(NumberToString(obj.num))>>
    [] obj.type = "date" -> <<Str("date"), Str(ToISOString(obj.text))>>
    [] obj.type = "buffer" ->
         <<Str("buffer"), Obj([NoAttrs EXCEPT !.encoding = "base64"]), Str(ToBase64(obj.text))>>
    [] obj.type = "array" ->
         <<Str("array")>> \o [i \in 1..Len(obj.items) |-> Arr(ArbitraryObjectToJsonML(obj.items[i]))]
    [] obj.type = "object" ->
         <<Str("object")>> \o
           [i \in 1..Len(obj.items) |->
              LET enc == ExpandElement(ArbitraryObjectToJsonML(obj.items[i]))
              IN  Arr([enc EXCEPT ![2] = Obj([enc[2].attrs EXCEPT !.name = obj.keys[i]])])]

\* children.join(''): the text of the children one after another
Join(children) ==
  LET filled == SelectSeq(children, LAMBDA c : c.kind # "string" \/ c.text # "")
  IN  IF filled = <<>> THEN ""
      ELSE IF Len(filled) = 1 /\ filled[1].kind = "string" THEN filled[1].text
      ELSE "?"

\* child[1].name of a child of an object element
ChildName(child) ==
  IF child.kind # "array" \/ Len(child.kids) < 2 THEN "TypeError"
  ELSE IF child.kids[2].kind = "object" /\ child.kids[2].attrs.name # ""
       THEN child.kids[2].attrs.name
       ELSE "undefined"

\* Object.fromEntries: a key stands where it came first and holds what came last
FromEntries(keys, items) ==
  LET firsts == {i \in 1..Len(keys) : \A j \in 1..(i - 1) : keys[j] # keys[i]}
      LastOf(i) == CHOOSE j \in 1..Len(keys) :
                     keys[j] = keys[i] /\ \A m \in (j + 1)..Len(keys) : keys[m] # keys[i]
      Pick(s) == LET RECURSIVE Order(_)
                     Order(rest) ==
                       IF rest = {} THEN <<>>
                       ELSE LET i == CHOOSE x \in rest : \A y \in rest : x <= y
                            IN  <<i>> \o Order(rest \ {i})
                 IN  Order(s)
      order == Pick(firsts)
  IN  ObjectV([n \in 1..Len(order) |-> keys[order[n]]],
              [n \in 1..Len(order) |-> items[LastOf(order[n])]])

RECURSIVE JsonMLToArbitraryObject(_)
JsonMLToArbitraryObject(jsonml) ==
  LET tag == jsonml[1].text
      hasAttributes == Len(jsonml) >= 2 /\ jsonml[2].kind \in {"object", "array"}
      attributes == IF hasAttributes THEN jsonml[2].attrs ELSE NoAttrs
      children == SubSeq(jsonml, IF hasAttributes THEN 3 ELSE 2, Len(jsonml))
      Child(c) == IF c.kind = "array" THEN JsonMLToArbitraryObject(c.kids) ELSE Undefined
      values == [i \in 1..Len(children) |-> Child(children[i])]
      names == [i \in 1..Len(children) |-> ChildName(children[i])]
      throws == \E i \in 1..Len(children) : values[i] = Thrown
  IN  CASE tag \in {"true", "false", "null", "undefined"} -> Atom(tag)
        [] tag = "number" -> NumberV(ParseFloat(Join(children)))
        [] tag = "date" -> DateV(NewDate(Join(children)))
        [] tag = "string" -> StringV(Join(children))
        [] tag = "buffer" -> BufferV(BufferFrom(Join(children), attributes.encoding))
        [] tag = "array" -> IF throws THEN Thrown ELSE ArrayV(values)
        [] tag = "object" ->
             IF throws \/ \E i \in 1..Len(children) : names[i] = "TypeError"
             THEN Thrown ELSE FromEntries(names, values)
        [] OTHER -> Undefined

\* XML text is a sequence of tokens: an opening tag, a closing tag, an empty-element
\* tag, or character data.
Tok(t, tag, attrs, text) == [t |-> t, tag |-> tag, attrs |-> attrs, text |-> text]

\* esc(string, '&<') and the parser's reading of an entity
Esc(s) == CASE s = "<" -> "&lt;" [] s = "&" -> "&amp;" [] OTHER -> s
Unesc(s) == CASE s = "&lt;" -> "<" [] s = "&amp;" -> "&" [] OTHER -> s

RECURSIVE Concat(_)
Concat(rows) == IF rows = <<>> THEN <<>> ELSE Head(rows) \o Concat(Tail(rows))

\* buildXML of an element: <tag attribs>children</tag>, or <tag attribs/> without children
RECURSIVE BuildXML(_)
BuildXML(element) ==
  LET tag == element[1].text
      rest == Tail(element)
      shifted == rest # <<>> /\ rest[1].kind = "object"
      attribs == IF shifted THEN rest[1].attrs ELSE NoAttrs
      more == IF shifted THEN Tail(rest) ELSE rest
      Child(c) ==
        CASE c.kind = "array" -> BuildXML(c.kids)
          [] c.kind = "string" ->
               IF c.text = "" THEN <<>> ELSE <<Tok("text", "", NoAttrs, Esc(c.text))>>
          [] OTHER -> <<>>
  IN  IF Len(more) > 0
      THEN <<Tok("open", tag, attribs, "")>>
             \o Concat([i \in 1..Len(more) |-> Child(more[i])])
             \o <<Tok("close", tag, NoAttrs, "")>>
      ELSE <<Tok("empty", tag, attribs, "")>>

\* onml.parse: an element is [tag, attributes, ...children], without the attributes
\* when it has none
Element(tag, attrs, kids) ==
  IF attrs = NoAttrs THEN <<Str(tag)>> \o kids ELSE <<Str(tag), Obj(attrs)>> \o kids

\* the nodes from token i up to the closing tag of the element they are in
RECURSIVE ParseNodes(_, _)
ParseNodes(toks, i) ==
  IF i > Len(toks) \/ toks[i].t = "close" THEN [kids |-> <<>>, next |-> i + 1]
  ELSE IF toks[i].t = "text"
  THEN LET after == ParseNodes(toks, i + 1)
       IN  [kids |-> <<Str(Unesc(toks[i].text))>> \o after.kids, next |-> after.next]
  ELSE IF toks[i].t = "empty"
  THEN LET after == ParseNodes(toks, i + 1)
       IN  [kids |-> <<Arr(Element(toks[i].tag, toks[i].attrs, <<>>))>> \o after.kids,
            next |-> after.next]
  ELSE LET inner == ParseNodes(toks, i + 1)
           after == ParseNodes(toks, inner.next)
       IN  [kids |-> <<Arr(Element(toks[i].tag, toks[i].attrs, inner.kids))>> \o after.kids,
            next |-> after.next]

OnmlParse(input) == ParseNodes(input, 1).kids[1].kids

\* encode of a value that is no JsonML document
Encode(obj) ==
  LET arbitrary == ExpandElement(ArbitraryObjectToJsonML(obj))
  IN  BuildXML([arbitrary EXCEPT ![2] = Obj([arbitrary[2].attrs EXCEPT !.xmlns = ArbitraryNS])])

\* the value of a document that is not in the arbitrary namespace: { JsonML: parsed }
JsonMLDocument == Atom("JsonML")

Decode(input) ==
  LET parsed == OnmlParse(input)
  IN  IF Len(parsed) >= 2 /\ parsed[2].kind = "object" /\ parsed[2].attrs.xmlns = ArbitraryNS
      THEN JsonMLToArbitraryObject(parsed)
      ELSE JsonMLDocument

InitXml ==
  \E v \in Values(MaxDepth) :
    InitState(FALSE, <<>>, [fn |-> "xml", done |-> FALSE, value |-> v,
                            back |-> Undefined, decoded |-> Undefined])

\* the value through the two conversions and through encode and decode
XmlRoundTrip ==
  /\ call.fn = "xml" /\ ~call.done
  /\ call' = [call EXCEPT !.done = TRUE,
                          !.back = JsonMLToArbitraryObject(ArbitraryObjectToJsonML(call.value)),
                          !.decoded = Decode(Encode(call.value))]
  /\ UNCHANGED <<meta, prior, listing, objects, fileLock, events>>
  /\ UNCHANGED attVars
  /\ UNCHANGED <<pc, loc, last, ops>>

NextXml == XmlRoundTrip
SpecXml == InitXml /\ [][NextXml]_vars

\* C28: a value comes back equal from jsonMLToArbitraryObject(arbitraryObjectToJsonML(v))
\* and from decode(encode(v)), arrays directly inside arrays included.
C28_XmlRoundTrip ==
  (call.fn = "xml" /\ call.done) =>
    /\ call.back = call.value
    /\ call.decoded = call.value

\* ------------------------------------------------------- server: request bodies
ContentTypes == {"application/json", "application/xml", "text/xml", "text/plain"}

\* documents in the arbitrary namespace: what encode writes for a value, and an
\* object element whose child carries no name
Documents ==
  {Encode(v) : v \in Values(1)}
    \cup {BuildXML(<<Str("object"), Obj([NoAttrs EXCEPT !.xmlns = ArbitraryNS]), Arr(child)>>) :
            child \in {<<Str("null")>>, <<Str("array")>>, <<Str("string"), Str("x")>>}}

\* req.is(...Object.keys(codec.mediaTypeHandlers)): the media type when it is one of
\* the list, else false
ReqIs(type) == IF MediaTypeHandlers(<<type>>) # "undefined" THEN type ELSE "false"

NoError == [name |-> "", statusCode |-> 0, code |-> "", borc |-> FALSE]

\* what specificCodec.decode(req.body) throws: JSON.parse a SyntaxError on text that is
\* no JSON, the xml decode the TypeError of jsonMLToArbitraryObject
DecodeError(codec, body) ==
  CASE codec = "json" /\ ~body.json -> [NoError EXCEPT !.name = "SyntaxError"]
    [] codec = "xml" /\ Decode(body.xml) = Thrown -> [NoError EXCEPT !.name = "TypeError"]
    [] OTHER -> NoError

\* the error handler's status
ErrorStatus(error) ==
  IF error.statusCode # 0 THEN error.statusCode
  ELSE IF error.code = "ENOENT" THEN 404
  ELSE IF error.name = "SyntaxError" \/ error.borc THEN 400
  ELSE 500

InitRequest ==
  \E type \in ContentTypes, json \in BOOLEAN, xml \in Documents :
    InitState(FALSE, <<>>, [fn |-> "request", done |-> FALSE, type |-> type,
                            body |-> [json |-> json, xml |-> xml],
                            failed |-> FALSE, status |-> 0])

\* the decoding middleware, and the error handler when decode throws; status 0 stands
\* for next(), the request going on to the routes
DecodeBody ==
  /\ call.fn = "request" /\ ~call.done
  /\ LET reqType == ReqIs(call.type)
         error == IF reqType = "false" THEN NoError
                  ELSE DecodeError(For(<<reqType>>), call.body)
     IN  call' = [call EXCEPT !.done = TRUE,
                              !.failed = error # NoError,
                              !.status = IF error # NoError THEN ErrorStatus(error) ELSE 0]
  /\ UNCHANGED <<meta, prior, listing, objects, fileLock, events>>
  /\ UNCHANGED attVars
  /\ UNCHANGED <<pc, loc, last, ops>>

NextRequest == DecodeBody
SpecRequest == InitRequest /\ [][NextRequest]_vars

\* C27: a request whose body fails to decode with the codec of its content type is
\* answered with status 400.
C27_DecodeFailureIs400 ==
  (call.fn = "request" /\ call.done /\ call.failed) => call.status = 400

\* ------------------------------------------------- validate over committed records
\* the links of a committed record: none, one hash URL of the attachment, or two of
\* them (the same hash with different ?type parameters)
LinkRows == {<<>>, <<"A">>, <<"A", "A">>}
Committed == {NoRec} \cup {[present |-> TRUE, hash |-> 101 + Len(l), links |-> l, version |-> 1] :
                             l \in LinkRows}

\* A dataset at version 1 with its records committed, and the attachment stored with
\* some of the record paths as linkers; with held, the writeStream's closure is held.
InitValidate ==
  \E ra, rb \in Committed, linkers \in PathLists, held \in BOOLEAN :
    /\ meta = [NoMeta EXCEPT !.exists = TRUE, !.version = 1,
                             !.records = [r \in Recs |-> IF r = "a" THEN ra ELSE rb]]
    /\ prior = {}
    /\ listing = Unlisted
    /\ call = NoCall
    /\ objects = {r.hash : r \in {x \in {ra, rb} : x.present}}
    /\ attBlob = [h \in Atts |-> TRUE]
    /\ attMeta = [h \in Atts |-> [NoAttMeta EXCEPT !.exists = TRUE, !.linkers = linkers]]
    /\ holding = [h \in Atts |-> IF held THEN 1 ELSE 0]
    /\ fileLock = NoProc
    /\ metaLock = [h \in Atts |-> NoProc]
    /\ attLock = [h \in Atts |-> NoProc]
    /\ hstate = [h \in Handles |-> IF held /\ h = 1 THEN "held" ELSE "free"]
    /\ hhash = [h \in Handles |-> "A"]
    /\ pc = [p \in Procs |-> "idle"]
    /\ loc = [p \in Procs |-> Loc0]
    /\ last = Last0
    /\ events = <<>>
    /\ ops = 0

NextValidate ==
  \/ \E p \in Procs, a \in Atts : StartValidate(p, a)
  \/ \E p \in Procs : ValidateRead(p)
  \/ \E p \in Procs : ValidateWrite(p)
  \/ \E p \in Procs : ValidateDecide(p)
  \/ \E p \in Procs : ValidateDelete(p)
SpecValidate == InitValidate /\ [][NextValidate]_vars

\* C29: the step in which validate writes an existing meta leaves as linkers the
\* linkers it had whose record has a link to the hash, each of them once, and leaves
\* the other fields as they were.
C29_LinkersPrunedOnce ==
  [][ \A p \in Procs :
        LET a == loc[p].att
        IN  (pc[p] = "v_write" /\ pc'[p] # "v_write" /\ attMeta[a].exists) =>
              /\ SeqSet(attMeta'[a].linkers)
                   = {x \in SeqSet(attMeta[a].linkers) : Includes(ReadPathLinks(x), a)}
              /\ NoDuplicates(attMeta'[a].linkers)
              /\ attMeta'[a] = [attMeta[a] EXCEPT !.linkers = attMeta'[a].linkers] ]_vars

\* a write of record x with a link to attachment a has passed its links check and has
\* not committed yet
InFlight(x, a) ==
  \E q \in Procs :
    /\ pc[q] \in {"we_write", "u_retain", "u_write"}
    /\ loc[q].err = ""
    /\ loc[q].cur[1] = x
    /\ Includes(ListHashURLs(loc[q].cur[2]), a)

\* C30: while the attachment is held, the step in which a validate writes the meta
\* removes no linker whose record write is in flight.
C30_HeldLinkersKept ==
  [][ \A p \in Procs :
        LET a == loc[p].att
        IN  (pc[p] = "v_write" /\ pc'[p] # "v_write" /\ holding[a] > 0) =>
              \A x \in SeqSet(attMeta[a].linkers) :
                InFlight(x, a) => x \in SeqSet(attMeta'[a].linkers) ]_vars

\* C31: a read that found its record in the meta finds the object of the record's hash
\* when at most one updateMeta has run its retain or its write between the meta read
\* and the object read.
C31_ReaderKeepsObject ==
  [][ \A p \in Procs :
        (pc[p] = "r_obj" /\ Returns(p) /\ loc[p].updates <= 1) =>
          /\ loc[p].before.records[loc[p].rec].hash \in objects
          /\ last'.ok
          /\ last'.value = ValueName(ObjectRead(loc[p].before.records[loc[p].rec].hash)) ]_vars

\* a read has returned the value record a had at version 1 after a write committed
\* version 2 with another value for a
C31_Witness ==
  /\ last.op = "read" /\ last.ok /\ last.value = "Plain"
  /\ meta.version = 2
  /\ meta.records["a"].present /\ meta.records["a"].hash = ObjectHash(Linked)
  /\ ~meta.records["b"].present
  /\ Quiescent

\* C32: the pathUpdated events of the dataset carry strictly increasing versions in the
\* order of their emission, whichever way the writers overlap.
C32_EventsInVersionOrder ==
  \A i, j \in 1..Len(events) :
    (i < j /\ events[i].path = "dataset" /\ events[j].path = "dataset") =>
      events[i].version < events[j].version

\* two writers that overlapped in time have both committed, and the events of
\* versions 1 and 2 were emitted in that order
C32_Witness ==
  /\ events = <<[path |-> "dataset", version |-> 1], [path |-> "dataset", version |-> 2]>>
  /\ last.ok /\ last.overlap
  /\ meta.version = 2
  /\ Quiescent

\* C33: a create writes its meta only while the dataset does not exist: of two creates
\* that overlap at most one writes, and no create replaces the meta of a dataset that
\* exists when it writes.
C33_CreateAtomic ==
  [][ \A p \in Procs :
        (pc[p] = "c_write" /\ pc'[p] # "c_write") => ~meta.exists ]_vars

\* C34: the step in which delete(user, name) completes leaves the dataset absent, and
\* an absent dataset comes to exist again only by the write of a create; a write that
\* was in flight during the delete does not bring the meta back.
C34_DeletedStaysDeleted ==
  [][ /\ (last'.op = "deleteDataset" /\ last' # last) => ~meta'.exists
      /\ (~meta.exists /\ meta'.exists) =>
            \E p \in Procs : pc[p] = "c_write" /\ pc'[p] # "c_write" ]_vars

\* ------------------------------------------------------- attachments: import
\* import({ path, hash, linkers }): await this.has(hash) chooses between link and
\* writeStream
StartImport(p, a, paths) ==
  /\ CanStart(p)
  /\ Begin(p, IF AttHas(a) THEN "l_acq" ELSE "i_stream",
           [Loc0 EXCEPT !.op = "import", !.att = a, !.paths = paths])
  /\ UNCHANGED attVars
  /\ UNCHANGED datasetVars

\* import: writeStream has the file in its temp file and holds the hash; the release
\* closure is part of a result of which import reads the hash alone, so no handle
\* stands for it
ImportStream(p) ==
  /\ pc[p] = "i_stream"
  /\ holding' = [holding EXCEPT ![loc[p].att] = @ + 1]
  /\ Goto(p, "ws_acq", loc[p])
  /\ UNCHANGED <<attBlob, attMeta, metaLock, attLock, hstate, hhash>>
  /\ UNCHANGED datasetVars

\* imports that overlap each other, and the release closures of earlier uploads
NextImport ==
  \/ \E p \in Procs, a \in Atts, paths \in PathLists : StartImport(p, a, paths)
  \/ \E p \in Procs : ImportStream(p)
  \/ \E p \in Procs : WSAcquire(p)
  \/ \E p \in Procs : WSRead(p)
  \/ \E p \in Procs : WSRename(p)
  \/ \E p \in Procs : WSWrite(p)
  \/ \E p \in Procs : LinkAcquire(p)
  \/ \E p \in Procs : LinkRead(p)
  \/ \E p \in Procs : LinkWrite(p)
  \/ \E p \in Procs, h \in Handles : Release(p, h)
  \/ \E p \in Procs : ValidateRead(p)
  \/ \E p \in Procs : ValidateWrite(p)
  \/ \E p \in Procs : ValidateDecide(p)
  \/ \E p \in Procs : ValidateDelete(p)
SpecImport == InitData /\ [][NextImport]_vars

\* the release closures of a hash that some caller has and has not called yet
Outstanding(a) == {h \in Handles : hhash[h] = a /\ hstate[h] \in {"pending", "held", "heldRaw"}}

\* C35: when no call is under way, the holding table counts for every hash exactly
\* the release closures that callers still have: an import that has returned has
\* left holding[hash] as it found it.
C35_ImportReleasesHold ==
  Quiescent => \A a \in Atts : holding[a] = Cardinality(Outstanding(a))

\* the call at its commit stored nothing new: its entries all carried the stored values
Unchanging(p) == loc[p].op \in EntriesOps /\ loc[p].same
\* the call deletes a record that the meta it read does not have
DeletesAbsent(p) == loc[p].op = "delete" /\ ~loc[p].before.records[loc[p].rec].present
\* the commit leaves the records as they were, steps the version and emits its event
CommitsNoChange(p) ==
  /\ meta'.records = loc[p].before.records
  /\ meta.records = loc[p].before.records
  /\ meta'.version = meta.version + 1
  /\ events' = Append(events, [path |-> "dataset", version |-> meta.version + 1])
  /\ last'.ok

\* C36 as stated: a writeEntries whose entries all carry the stored values, and a
\* delete of a record that is not present, commit with every record's hash, links and
\* version unchanged, the dataset version one higher and one pathUpdated event for it.
C36_NoChangeCommit ==
  [][ \A p \in Procs :
        (Commits(p) /\ (Unchanging(p) \/ DeletesAbsent(p))) => CommitsNoChange(p) ]_vars

\* C36 amended: the same, for a writeEntries that either runs without overwrite or
\* names every stored record in its entries.
C36_NoChangeCommitMerge ==
  [][ \A p \in Procs :
        (Commits(p) /\ \/ Unchanging(p) /\ (loc[p].overwrite => loc[p].prevKeys \subseteq loc[p].included)
                       \/ DeletesAbsent(p)) => CommitsNoChange(p) ]_vars

\* a writeEntries that stored record a once more, next to a record b it did not name,
\* is about to commit version 3 with both records at the versions they had
C36_Witness ==
  \E p \in Procs :
    /\ pc[p] = "u_write" /\ loc[p].op = "writeEntries" /\ loc[p].same
    /\ loc[p].included = {"a"} /\ ~loc[p].overwrite
    /\ loc[p].draft.version = 3
    /\ loc[p].draft.records["a"].version = 1
    /\ loc[p].draft.records["b"].version = 2

\* ------------------------------------- updateMeta with blocks that set versions
\* the versions a block sets on a record: none, one the assertions reject, and every
\* version up to one above the highest dataset version
BlockVersions == -1..(MaxOps + 1)

NextBlock ==
  \/ \E p \in Procs : StartUpdate(p)
  \/ \E p \in Procs, id \in Recs, d \in Data, v \in BlockVersions, hashOK \in BOOLEAN :
        BlockRecord(p, id, d, v, hashOK)
  \/ WriteNext
SpecBlock == Init /\ [][NextBlock]_vars

\* every record of the meta has a well-formed hash and a version from 1 to the
\* dataset's version
InRange(m) ==
  \A r \in PresentIds(m) :
    /\ m.records[r].hash \in {ObjectHash(d) : d \in Data}
    /\ 1 <= m.records[r].version /\ m.records[r].version <= m.version
\* no record present in both metas has a lower version in the second
NotLowered(m, n) ==
  \A r \in PresentIds(m) \cap PresentIds(n) : m.records[r].version <= n.records[r].version

C38_NullWriteRejected ==
  [][ /\ (last'.op = "write" /\ ops' # ops /\ pc' = pc) =>
            /\ ~last'.ok /\ last'.err = "AssertionError"
            /\ meta' = meta /\ objects' = objects /\ events' = events
      /\ \A p \in Procs :
            /\ (Commits(p) /\ loc[p].op = "write") =>
                  (loc[p].nulled = {} /\ PresentIds(meta) \subseteq PresentIds(meta'))
            /\ (Commits(p) /\ loc[p].op = "writeEntries") =>
                  /\ \A id \in loc[p].nulled : ~meta'.records[id].present
                  /\ meta'.version = meta.version + 1 ]_vars

\* a write of null has just failed with record a stored at version 1, while a
\* writeEntries whose entry for a was null is about to commit without it
C38_Witness ==
  /\ last.op = "write" /\ ~last.ok /\ last.err = "AssertionError"
  /\ meta.version = 1 /\ meta.records["a"].present
  /\ \E p \in Procs :
       /\ pc[p] = "u_write" /\ loc[p].op = "writeEntries" /\ loc[p].nulled = {"a"}
       /\ ~loc[p].draft.records["a"].present

\* ------------------------------------------------------------- server: routes
\* request paths: the homepage, a path of a controller, and paths no controller, no
\* static file and no route answers
Paths == {"/", "/datasets/", "/nowhere", "/datasets"}
Routed == {"/", "/datasets/"}

\* the error the catch-all middleware throws
PathNotFound ==
  [name |-> "Error", statusCode |-> 0, code |-> "Path Not Found", borc |-> FALSE,
   httpCode |-> 404]

InitRoute ==
  \E type \in ContentTypes, json \in BOOLEAN, xml \in Documents, path \in Paths :
    InitState(FALSE, <<>>, [fn |-> "request", done |-> FALSE, type |-> type,
                            body |-> [json |-> json, xml |-> xml],
                            failed |-> FALSE, status |-> 0,
                            path |-> path, routed |-> FALSE])

\* the request after next(): a controller or app.get('/') answers it (200, no
\* res.status is called), or it falls through to the catch-all, whose error the error
\* handler turns into a status
Route ==
  /\ call.fn = "request" /\ call.done /\ ~call.failed /\ ~call.routed
  /\ call' = [call EXCEPT !.routed = TRUE,
                          !.status = IF call.path \in Routed THEN 200
                                     ELSE ErrorStatus(PathNotFound)]
  /\ UNCHANGED <<meta, prior, listing, objects, fileLock, events>>
  /\ UNCHANGED attVars
  /\ UNCHANGED <<pc, loc, last, ops>>

NextRoute == DecodeBody \/ Route
SpecRoute == InitRoute /\ [][NextRoute]_vars

\* C39: a request that has reached the routes with a path none of them handles is
\* answered with status 404.
C39_UnhandledPathIs404 ==
  (call.fn = "request" /\ call.routed /\ call.path \notin Routed) => call.status = 404

====
